---- MODULE Spec2Model ----
(***************************************************************************)
(* Model of the translation job queue (plugins/queue_plugin.py,            *)
(* QueuePlugin), of the per-user rate limiter (main.py, check_rate_limit)  *)
(* and of the translation path of main.py: traducir_texto,                 *)
(* traducir_con_cache, traducir_texto_engine, traducir_texto_google and    *)
(* the chapter loop of the message handlers.                               *)
(*                                                                         *)
(* QueuePlugin runs on one asyncio event loop: code between two awaits is  *)
(* atomic.  The scheduler coroutine process_queue and one process_item     *)
(* coroutine per dispatched job are the concurrent activities; the public  *)
(* methods add_to_queue, cancel_item and the hooks are called by the host  *)
(* between their steps.  The job table is persisted by save_queue and      *)
(* restored by load_queue when the process starts again.                   *)
(*                                                                         *)
(* Taken from the environment: datetime.now() never goes back, save_queue  *)
(* writes the file (its except branch is not taken), and the host calls    *)
(* the plugin only once on_system_startup has run.                         *)
(*                                                                         *)
(* traducir_texto is a plain function: one call is one step, from the      *)
(* cache lookup to the return.  The engines and the cache store are the    *)
(* environment: each engine call returns or raises, and a Redis call may   *)
(* raise.  The application handles one message at a time, so two           *)
(* traducir_texto calls do not overlap.  A str is kept as its runs of      *)
(* equal characters, which lets the texts have their true lengths.         *)
(***************************************************************************)
EXTENDS Integers, Sequences, FiniteSets, TLC

\* ---------------------------------------------------------------- bounds
MaxJobs == 2        \* jobs ever created (uuid4 values handed out)
MaxCrashes == 1     \* process terminations, where they are counted
MaxCalls == 3       \* check_rate_limit calls made
MaxTranslations == 3    \* traducir_texto calls made
MaxChapters == 2        \* chapters of a document sent to the bot

\* ------------------------------------------------------ program constants
processing_slots == 2
RateLimitSeconds == 60

Users == {1, 2}                     \* Telegram user ids
Owners == {1}                       \* users that enqueue jobs
Priorities == {2, 3}                \* the default and on_large_file_detected's
Never == -1                         \* no entry in last_usage
ProgressSteps == <<2, 5, 8, 10>>    \* [0.2, 0.5, 0.8, 1.0] in tenths
ClockSteps == {0, 1, 59, 60}        \* seconds that pass between two calls
Stamp == "isoformat"                \* a started_at/completed_at time: written, never read
NoFile == [exists |-> FALSE, data |-> <<>>]   \* storage/translation_queue.json missing
NoTasks == [i \in {} |-> 0]

SoftLimit == 3000                   \* len(current_chunk + sentence) > 3000
HardLimit == 5000                   \* len(chunk) > 5000
SliceSize == 2500                   \* chunk[i:i+2500]
CacheTtl == 86400                   \* setex(cache_key, 86400, result)
LargeFile == 50 * 1024 * 1024       \* file_size > 50 * 1024 * 1024
Forever == -1                       \* an entry that carries no expiry time
Whitespace == {" ", "\n"}           \* what str.strip() removes, of the characters used
Backings == {"Redis", "MockRedis"}  \* redis.from_url(REDIS_URL), or the class of main.py
Engines == {"google", "deepl"}      \* the translation_engine setting
Sources == {"en"}                   \* detected language of the text
Targets == {"es"}                   \* the target_language setting
CacheClockSteps == {1, 86399}       \* seconds that pass before a traducir_texto call
NoEntries == [k \in {} |-> 0]       \* an empty cache
Idle == [user |-> 0, total |-> 0, idx |-> 0, porcentaje |-> 0]   \* no handler in progress

\* What the caller of traducir_texto gets: a str, or an exception.
Returned(s) == [raised |-> FALSE, text |-> s]
Raised == [raised |-> TRUE, text |-> <<>>]

\* No traducir_texto call made yet.
NoCall == [texto |-> <<>>, source |-> "", target |-> "", engine |-> "", n |-> 0,
           hit |-> FALSE, calls |-> <<>>, out |-> Returned(<<>>)]

VARIABLES
    queue,                  \* self.queue: list of QueueItem
    currently_processing,   \* self.currently_processing
    file,                   \* contents of self.queue_file, or NoFile
    running,                \* the process_queue task exists
    inPass,                 \* process_queue is inside its inner while loop
    tasks,                  \* process_item tasks: job id -> progress updates done
    next_id,                \* ids handed out so far (uuid4 never repeats)
    now,                    \* the last reading of datetime.now()
    crashes,                \* process terminations counted so far
    last_usage,             \* main.last_usage: user -> time of last allowed call
    rl_log,                 \* history of check_rate_limit calls of this run
    redis_client,           \* which cache backing main.py set up: "Redis" or "MockRedis"
    DEEPL_API_KEY,          \* TRUE when the environment holds a DeepL key
    cache,                  \* the entries of redis_client: key -> [value, expires]
    tr,                     \* the last traducir_texto call: arguments, engine calls, result
    handler                 \* the message handler in progress, or Idle

vars == <<queue, currently_processing, file, running, inPass, tasks, next_id,
          now, crashes, last_usage, rl_log, redis_client, DEEPL_API_KEY,
          cache, tr, handler>>

queueVars == <<queue, currently_processing, file, running, inPass, tasks,
               next_id, crashes>>
rateVars == <<last_usage, rl_log>>
textVars == <<redis_client, DEEPL_API_KEY, cache, tr, handler>>

\* ---------------------------------------------------------------- helpers
Max(a, b) == IF a >= b THEN a ELSE b

Ids(q) == {q[i].id : i \in DOMAIN q}

Item(q, id) == q[CHOOSE i \in DOMAIN q : q[i].id = id]

StatusOf(q, id) == Item(q, id).status

CountStatus(q, s) == Cardinality({i \in DOMAIN q : q[i].status = s})

\* QueueItem(...) as built by add_to_queue: the dataclass defaults for the rest.
\* A QueueItem whose id is not fresh.
QueueItemSameId(id, user_id, priority, created_at) ==
    [id |-> 1, user_id |-> user_id, priority |-> priority, created_at |-> created_at,
     status |-> "queued", started_at |-> "None", completed_at |-> "None",
     progress |-> 0, result_path |-> "None", error_msg |-> "None"]

QueueItem(id, user_id, priority, created_at) ==
    [id |-> id, user_id |-> user_id, priority |-> priority, status |-> "queued",
     created_at |-> created_at, started_at |-> "None", completed_at |-> "None",
     progress |-> 0, result_path |-> "None", error_msg |-> "None"]

\* The order a descending sort of (priority, created_at) would give.
KeyLessNewestFirst(a, b) ==
    \/ a.priority > b.priority
    \/ a.priority = b.priority /\ a.created_at > b.created_at

\* The sort key of add_to_queue: (-priority, created_at).  created_at is an
\* isoformat() string; those compare as the times they were made from.
KeyLess(a, b) ==
    \/ a.priority > b.priority
    \/ a.priority = b.priority /\ a.created_at < b.created_at

\* list.sort is stable: x goes after every element whose key is not greater.
RECURSIVE InsertSorted(_, _)
InsertSorted(s, x) ==
    IF s = <<>> THEN <<x>>
    ELSE IF KeyLess(x, s[Len(s)]) THEN Append(InsertSorted(SubSeq(s, 1, Len(s) - 1), x), s[Len(s)])
    ELSE Append(s, x)

RECURSIVE SortPrefix(_, _)
SortPrefix(q, n) ==
    IF n = 0 THEN <<>> ELSE InsertSorted(SortPrefix(q, n - 1), q[n])

SortQueue(q) == SortPrefix(q, Len(q))

\* Every item that has not run yet, cancelled ones included.
PendingItemsNotStarted(q) == SelectSeq(q, LAMBDA it : it.status \in {"queued", "cancelled"})

\* pending_items = [item for item in self.queue if item.status == 'queued']
PendingItems(q) == SelectSeq(q, LAMBDA it : it.status = "queued")

\* max(0, self.currently_processing - 1)
ReleaseSlot(cp) == Max(0, cp - 1)

\* save_queue dumps asdict(item) for every item, in list order.
SaveQueue(q) == [exists |-> TRUE, data |-> q]

\* load_queue: the list is replaced only when the file exists.
LoadQueue(q, f) == IF f.exists THEN f.data ELSE q

SetItem(q, id, new) == [i \in DOMAIN q |-> IF q[i].id = id THEN new ELSE q[i]]


\* ------------------------------------------------------------------- Init
Init ==
    /\ queue = <<>>
    /\ currently_processing = 0
    /\ file = NoFile
    /\ running = FALSE
    /\ inPass = FALSE
    /\ tasks = NoTasks
    /\ next_id = 0
    /\ now = 0
    /\ crashes = 0
    /\ last_usage = [u \in Users |-> Never]
    /\ rl_log = <<>>
    /\ redis_client = "MockRedis"
    /\ DEEPL_API_KEY = FALSE
    /\ cache = NoEntries
    /\ tr = NoCall
    /\ handler = Idle

\* ------------------------------------------------------------ QueuePlugin
\* add_to_queue(user_id, file_path, file_size, priority): append, save, sort.
\* t is the reading of datetime.now(): not before the previous reading, and
\* the first reading is the origin of the time scale.
AddToQueue(u, p, t) ==
    /\ running /\ ~inPass
    /\ t >= now /\ (next_id = 0 => t = now)
    /\ now' = t
    /\ LET item == QueueItem(next_id + 1, u, p, t)
           appended == Append(queue, item)
       IN /\ file' = SaveQueue(appended)
          /\ queue' = SortQueue(appended)
    /\ next_id' = next_id + 1
    /\ UNCHANGED <<currently_processing, running, inPass, tasks, crashes, rateVars, textVars>>

\* on_system_startup: load_queue, then create the process_queue task.
OnSystemStartup ==
    /\ ~running
    /\ queue' = LoadQueue(queue, file)
    /\ running' = TRUE
    /\ UNCHANGED <<currently_processing, file, inPass, tasks, next_id, now, crashes, rateVars, textVars>>

\* The condition of the inner while loop of process_queue, with the break.
CanDispatch(q, cp) ==
    /\ cp < processing_slots
    /\ q # <<>>
    /\ PendingItems(q) # <<>>

\* One iteration of the inner while loop of process_queue.  The loop holds no
\* await: until it ends (inPass) nothing else runs.
ProcessQueue ==
    /\ running
    /\ CanDispatch(queue, currently_processing)
    /\ LET item == PendingItems(queue)[1]
           started == [item EXCEPT !.status = "processing", !.started_at = Stamp]
       IN /\ queue' = SetItem(queue, item.id, started)
          /\ tasks' = (item.id :> 0) @@ tasks
    /\ currently_processing' = currently_processing + 1
    /\ file' = SaveQueue(queue')
    /\ inPass' = CanDispatch(queue', currently_processing')
    /\ UNCHANGED <<running, next_id, now, crashes, rateVars, textVars>>

DropTask(t, id) == [i \in DOMAIN t \ {id} |-> t[i]]

\* process_item, one round of its progress loop: set progress, save, sleep.
ProcessItemStep(id) ==
    /\ ~inPass
    /\ id \in DOMAIN tasks
    /\ tasks[id] < Len(ProgressSteps)
    /\ queue' = SetItem(queue, id, [Item(queue, id) EXCEPT !.progress = ProgressSteps[tasks[id] + 1]])
    /\ file' = SaveQueue(queue')
    /\ tasks' = [tasks EXCEPT ![id] = @ + 1]
    /\ UNCHANGED <<currently_processing, running, inPass, next_id, now, crashes, rateVars, textVars>>

\* process_item after the loop: completed, then the finally block.
ProcessItemComplete(id) ==
    /\ ~inPass
    /\ id \in DOMAIN tasks
    /\ tasks[id] = Len(ProgressSteps)
    /\ queue' = SetItem(queue, id, [Item(queue, id) EXCEPT !.status = "completed",
                                       !.completed_at = Stamp, !.result_path = "processed"])
    /\ file' = SaveQueue(queue')
    /\ currently_processing' = ReleaseSlot(currently_processing)
    /\ tasks' = DropTask(tasks, id)
    /\ UNCHANGED <<running, inPass, next_id, now, crashes, rateVars, textVars>>

\* process_item when its try block raises: the except branch, then finally.
ProcessItemFail(id) ==
    /\ ~inPass
    /\ id \in DOMAIN tasks
    /\ queue' = SetItem(queue, id, [Item(queue, id) EXCEPT !.status = "failed",
                                       !.error_msg = "str(e)"])
    /\ file' = SaveQueue(queue')
    /\ currently_processing' = ReleaseSlot(currently_processing)
    /\ tasks' = DropTask(tasks, id)
    /\ UNCHANGED <<running, inPass, next_id, now, crashes, rateVars, textVars>>

\* The user_id of the caller not compared.
CancelHitsAnyUser(q, id, u) ==
    {i \in DOMAIN q : q[i].id = id /\ q[i].status \in {"queued", "processing"}}

\* The item cancel_item acts on: the first one with that id and user that is
\* queued or processing (the loop returns there); none: the loop falls through.
CancelHits(q, id, u) ==
    {i \in DOMAIN q : q[i].id = id /\ q[i].user_id = u /\ q[i].status \in {"queued", "processing"}}

\* cancel_item without its test of the status.
CancelItemReturnAnyStatus(q, id, u) == CancelHits(q, id, u) # {}

\* TRUE when cancel_item returns True: that item is queued, and is cancelled.
CancelItemReturn(q, id, u) ==
    /\ CancelHits(q, id, u) # {}
    /\ LET i == CHOOSE k \in CancelHits(q, id, u) : \A m \in CancelHits(q, id, u) : k <= m
       IN q[i].status = "queued"

\* cancel_item(item_id, user_id); it returns CancelItemReturn(queue, id, u).
CancelItem(id, u) ==
    /\ running /\ ~inPass
    /\ IF CancelItemReturn(queue, id, u)
       THEN /\ queue' = SetItem(queue, id, [Item(queue, id) EXCEPT !.status = "cancelled"])
            /\ file' = SaveQueue(queue')
       ELSE /\ UNCHANGED <<queue, file>>
    /\ UNCHANGED <<currently_processing, running, inPass, tasks, next_id, now, crashes, rateVars, textVars>>

\* on_translation_complete hook: "liberar slot de procesamiento".
OnTranslationComplete ==
    /\ running /\ ~inPass
    /\ currently_processing' = ReleaseSlot(currently_processing)
    /\ UNCHANGED <<queue, file, running, inPass, tasks, next_id, now, crashes, rateVars, textVars>>

\* The process ends and is started again: memory is as __init__ leaves it,
\* the tasks are gone, the queue file stays.
ProcessEnds ==
    /\ ~inPass
    /\ queue' = <<>>
    /\ currently_processing' = 0
    /\ running' = FALSE
    /\ tasks' = NoTasks
    /\ last_usage' = [u \in Users |-> Never]
    /\ rl_log' = <<>>
    /\ cache' = IF redis_client = "MockRedis" THEN NoEntries ELSE cache
    /\ tr' = NoCall
    /\ handler' = Idle
    /\ UNCHANGED <<file, inPass, next_id, now, redis_client, DEEPL_API_KEY>>

Crash == ProcessEnds /\ UNCHANGED crashes

CrashCounted ==
    /\ crashes < MaxCrashes
    /\ ProcessEnds
    /\ crashes' = crashes + 1

\* The calls and task steps of a run in which at most `limit` jobs are added.
\* cancel_item is called with the ids handed out and one that was not.
QueueSteps(limit) ==
    \/ \E u \in Owners, p \in Priorities, t \in now .. now + 1 :
          next_id < limit /\ AddToQueue(u, p, t)
    \/ OnSystemStartup
    \/ ProcessQueue
    \/ \E id \in 1 .. next_id : ProcessItemStep(id)
    \/ \E id \in 1 .. next_id : ProcessItemComplete(id)
    \/ \E id \in 1 .. next_id : ProcessItemFail(id)
    \/ \E id \in 1 .. next_id + 1, u \in Users : CancelItem(id, u)
    \/ OnTranslationComplete

Next == QueueSteps(MaxJobs) \/ Crash

Spec == Init /\ [][Next]_vars

\* Runs with one job more than there are worker slots.
OverloadNext == QueueSteps(processing_slots + 1) \/ Crash

OverloadSpec == Init /\ [][OverloadNext]_vars

\* Runs in which the process ends at most MaxCrashes times.
LiveNext == QueueSteps(MaxJobs) \/ CrashCounted

\* The event loop runs every task that is ready, and a process that ended is
\* started again: the scheduler pass, each process_item task and the startup
\* hook all get their turn.
Fairness ==
    /\ WF_vars(OnSystemStartup)
    /\ WF_vars(ProcessQueue)
    /\ \A id \in 1 .. MaxJobs :
          WF_vars(ProcessItemStep(id) \/ ProcessItemComplete(id) \/ ProcessItemFail(id))

LiveSpec == Init /\ [][LiveNext]_vars /\ Fairness

\* ----------------------------------------------------------- rate limiter
\* The test with <= in place of <.
RateLimitedInclusive(lu, u, t) == lu[u] # Never /\ t - lu[u] <= RateLimitSeconds

\* The test of check_rate_limit: usuario_id in last_usage and
\* now - last_usage[usuario_id] < timedelta(minutes=1).
RateLimited(lu, u, t) == lu[u] # Never /\ t - lu[u] < RateLimitSeconds

\* last_usage written before the test, on every call.
NextLastUsageAlways(lu, u, t) == [lu EXCEPT ![u] = t]

\* One timestamp for all users.
NextLastUsageEveryUser(lu, u, t) ==
    IF RateLimited(lu, u, t) THEN lu ELSE [v \in DOMAIN lu |-> t]

\* last_usage after the call: written only on the path that returns True.
NextLastUsage(lu, u, t) == IF RateLimited(lu, u, t) THEN lu ELSE [lu EXCEPT ![u] = t]

\* check_rate_limit(usuario_id), called d seconds after the previous call.
CheckRateLimitCall(u, d) ==
    /\ Len(rl_log) < MaxCalls
    /\ now' = now + d
    /\ last_usage' = NextLastUsage(last_usage, u, now')
    /\ rl_log' = Append(rl_log, [user |-> u, at |-> now', ret |-> ~RateLimited(last_usage, u, now')])

\* check_rate_limit called on its own.
CheckRateLimit(u, d) ==
    /\ CheckRateLimitCall(u, d)
    /\ UNCHANGED <<queueVars, textVars>>

RateNext == \E u \in Users, d \in ClockSteps : CheckRateLimit(u, d)

RateSpec == Init /\ [][RateNext]_vars

\* ------------------------------------------------------------------- str
\* A str is kept as its runs of equal characters: "aa. b" is
\* <<Run("a", 2), Run(".", 1), Run(" ", 1), Run("b", 1)>>.  No run is empty
\* and neighbouring runs differ in character, so equal strs are equal values.
Run(c, n) == [c |-> c, n |-> n]

\* len(s)
RECURSIVE len(_)
len(s) == IF s = <<>> THEN 0 ELSE s[1].n + len(Tail(s))

\* a + b
Concat(a, b) ==
    IF a = <<>> THEN b
    ELSE IF b = <<>> THEN a
    ELSE IF a[Len(a)].c = b[1].c
         THEN SubSeq(a, 1, Len(a) - 1) \o <<Run(b[1].c, a[Len(a)].n + b[1].n)>> \o Tail(b)
         ELSE a \o b

\* ''.join(parts)
RECURSIVE join(_)
join(parts) == IF parts = <<>> THEN <<>> ELSE Concat(parts[1], join(Tail(parts)))

RECURSIVE lstrip(_)
lstrip(s) == IF s # <<>> /\ s[1].c \in Whitespace THEN lstrip(Tail(s)) ELSE s

RECURSIVE rstrip(_)
rstrip(s) ==
    IF s # <<>> /\ s[Len(s)].c \in Whitespace THEN rstrip(SubSeq(s, 1, Len(s) - 1)) ELSE s

\* s.strip()
strip(s) == rstrip(lstrip(s))

\* s[:k]
RECURSIVE Take(_, _)
Take(s, k) ==
    IF k <= 0 \/ s = <<>> THEN <<>>
    ELSE IF s[1].n <= k THEN <<s[1]>> \o Take(Tail(s), k - s[1].n)
    ELSE <<Run(s[1].c, k)>>

\* s[k:]
RECURSIVE Drop(_, _)
Drop(s, k) ==
    IF k <= 0 \/ s = <<>> THEN s
    ELSE IF s[1].n <= k THEN Drop(Tail(s), k - s[1].n)
    ELSE <<Run(s[1].c, s[1].n - k)>> \o Tail(s)

\* s.split('. ') scanning from the left: cur is the piece collected so far,
\* rest the runs still to scan.  A delimiter is the last '.' of a run of dots
\* followed by the first ' ' of a run of spaces.
RECURSIVE SplitFrom(_, _)
SplitFrom(cur, rest) ==
    IF rest = <<>> THEN <<cur>>
    ELSE IF Len(rest) >= 2 /\ rest[1].c = "." /\ rest[2].c = " "
         THEN LET piece == IF rest[1].n > 1
                           THEN Concat(cur, <<Run(".", rest[1].n - 1)>>)
                           ELSE cur
                  after == IF rest[2].n > 1 THEN <<Run(" ", rest[2].n - 1)>> ELSE <<>>
              IN <<piece>> \o SplitFrom(after, SubSeq(rest, 3, Len(rest)))
         ELSE SplitFrom(Concat(cur, <<rest[1]>>), Tail(rest))

split(s) == SplitFrom(<<>>, s)

Delimiter == <<Run(".", 1), Run(" ", 1)>>     \* '. '

\* --------------------------------------------------- traducir_texto_google
\* The for loop over sentences of traducir_texto_google, from the state
\* (current_chunk, chunks) on, and the append after the loop.
RECURSIVE SoftLoop(_, _, _)
SoftLoop(sentences, current_chunk, chunks) ==
    IF sentences = <<>>
    THEN IF current_chunk # <<>> THEN Append(chunks, strip(current_chunk)) ELSE chunks
    ELSE LET sentence == Concat(sentences[1], Delimiter)
         IN IF len(Concat(current_chunk, sentence)) > SoftLimit
            THEN SoftLoop(Tail(sentences), sentence,
                          IF current_chunk # <<>>
                          THEN Append(chunks, strip(current_chunk))
                          ELSE chunks)
            ELSE SoftLoop(Tail(sentences), Concat(current_chunk, sentence), chunks)

\* chunks: the list after the soft-limit split.
Chunks(texto) == SoftLoop(split(texto), <<>>, <<>>)

\* [chunk[i:i+2500] for i in range(0, len(chunk), 2500)]
RECURSIVE Subchunks(_)
Subchunks(chunk) ==
    IF chunk = <<>> THEN <<>>
    ELSE <<Take(chunk, SliceSize)>> \o Subchunks(Drop(chunk, SliceSize))

\* final_chunks = chunks: nothing sliced.
HardLoopNoSlice(chunks) == chunks

\* The loop that builds final_chunks.
RECURSIVE HardLoop(_)
HardLoop(chunks) ==
    IF chunks = <<>> THEN <<>>
    ELSE (IF len(chunks[1]) > HardLimit THEN Subchunks(chunks[1]) ELSE <<chunks[1]>>)
         \o HardLoop(Tail(chunks))

\* final_chunks of traducir_texto_google(texto, ...).
FinalChunks(texto) == HardLoop(Chunks(texto))

\* What an engine returns for a text when its call succeeds: the letters are
\* put into the other language, in a form that tells the engine; layout and
\* punctuation stay.  (The true output is the engine's business.)
Translation(engine, s) ==
    [i \in DOMAIN s |->
        IF s[i].c = "a" THEN Run(IF engine = "deepl" THEN "d" ELSE "g", s[i].n) ELSE s[i]]

\* One call of an engine, as the caller sees it.
EngineCall(engine, s, ok) == [engine |-> engine, text |-> s, ok |-> ok]

\* The loop over final_chunks: chunk number i raises when i is in fails, and
\* then the chunk itself stands for its translation.
GoogleCalls(final_chunks, fails) ==
    [i \in DOMAIN final_chunks |-> EngineCall("google", final_chunks[i], i \notin fails)]

\* A failed chunk left out of the result.
traduccionesDropFailed(final_chunks, fails) ==
    [i \in DOMAIN final_chunks |->
        IF i \in fails THEN <<>> ELSE Translation("google", final_chunks[i])]

\* traducciones: one piece per chunk, in the order of final_chunks.
traducciones(final_chunks, fails) ==
    [i \in DOMAIN final_chunks |->
        IF i \in fails THEN final_chunks[i] ELSE Translation("google", final_chunks[i])]

\* traducir_texto_google(texto, source, target): its engine calls and the
\* str it returns.
traducir_texto_google(texto, fails) ==
    LET final_chunks == FinalChunks(texto)
    IN [calls |-> GoogleCalls(final_chunks, fails),
        result |-> join(traducciones(final_chunks, fails))]

\* --------------------------------------------------- traducir_texto_engine
\* TRUE when the DeepL translator is called: engine == 'deepl' and DEEPL_API_KEY.
UsesDeepl(engine, key) == engine = "deepl" /\ key

\* The except branch returning texto for every engine, Google not tried.
traducir_texto_engine_no_fallback(texto, engine, key, deepl_ok, fails) ==
    IF UsesDeepl(engine, key)
    THEN IF deepl_ok
         THEN [calls |-> <<EngineCall("deepl", texto, TRUE)>>,
               result |-> Translation("deepl", texto)]
         ELSE [calls |-> <<EngineCall("deepl", texto, FALSE)>>, result |-> texto]
    ELSE traducir_texto_google(texto, fails)

\* traducir_texto_engine(texto, source, target, engine): deepl_ok says whether
\* the DeepL call returns, fails which Google calls raise.
traducir_texto_engine(texto, engine, key, deepl_ok, fails) ==
    IF UsesDeepl(engine, key)
    THEN IF deepl_ok
         THEN [calls |-> <<EngineCall("deepl", texto, TRUE)>>,
               result |-> Translation("deepl", texto)]
         ELSE LET g == traducir_texto_google(texto, fails)
              IN [calls |-> <<EngineCall("deepl", texto, FALSE)>> \o g.calls,
                  result |-> g.result]
    ELSE traducir_texto_google(texto, fails)

\* ------------------------------------------------------ traducir_con_cache
\* get_cache_key: the md5 digest of f"{texto}|{source}|{target}|{engine}",
\* taken as free of collisions; the language codes hold no '|'.
get_cache_key(texto, source, target, engine) ==
    <<"md5", Concat(texto, <<Run("|", 1)>>), source, target, engine>>

\* value.encode() and cached_result.decode('utf-8')
encode(s) == [utf8 |-> s]
decode(b) == b.utf8

\* setex(key, time, value): Redis keeps the entry for `time` seconds,
\* MockRedis drops the time.
\* A store that keeps nothing.
setexNothing(c, backing, key, time, value, t) == c

\* A store that keeps a value only when an engine translated some of it.
setexTranslatedOnly(c, backing, key, time, value, t) ==
    IF \E i \in DOMAIN value : value[i].c \in {"g", "d"}
    THEN (key :> [value |-> [utf8 |-> value], stored |-> t,
                  expires |-> IF backing = "Redis" THEN t + time ELSE -1]) @@ c
    ELSE c

\* (stored, the time of the call, is kept for the record; no code reads it.)
setex(c, backing, key, time, value, t) ==
    (key :> [value |-> encode(value), stored |-> t,
             expires |-> IF backing = "Redis" THEN t + time ELSE Forever]) @@ c

\* get(key) finding nothing in an entry that carries no expiry time.
CachedRedisOnly(c, key, t) ==
    /\ key \in DOMAIN c
    /\ c[key].expires # Forever
    /\ t < c[key].expires

\* TRUE when get(key) at time t returns a value (and not None).
Cached(c, key, t) ==
    /\ key \in DOMAIN c
    /\ c[key].expires = Forever \/ t < c[key].expires

\* Failures of the backing store: none, get raises, setex raises.  MockRedis
\* is a dict and does not raise.
StoreFaults(backing) == IF backing = "Redis" THEN {"none", "get", "setex"} ELSE {"none"}

\* traducir_texto(texto, source, target, usuario_id) -> traducir_con_cache,
\* called d seconds after the last reading of the clock; engine and target
\* are the caller's settings.
TraducirTextoCall(texto, source, target, engine, d, fault, deepl_ok, fails) ==
    /\ tr.n < MaxTranslations
    /\ now' = now + d
    /\ LET key == get_cache_key(texto, source, target, engine)
           e == traducir_texto_engine(texto, engine, DEEPL_API_KEY, deepl_ok, fails)
           call == [texto |-> texto, source |-> source, target |-> target,
                    engine |-> engine, n |-> tr.n + 1,
                    hit |-> FALSE, calls |-> <<>>, out |-> Returned(<<>>)]
       IN IF strip(texto) = <<>>
          THEN /\ tr' = call
               /\ UNCHANGED cache
          ELSE IF fault = "get"
          THEN /\ tr' = [call EXCEPT !.out = Raised]
               /\ UNCHANGED cache
          ELSE IF Cached(cache, key, now')
          THEN /\ tr' = [call EXCEPT !.hit = TRUE, !.out = Returned(decode(cache[key].value))]
               /\ UNCHANGED cache
          ELSE IF e.result = <<>>
          THEN /\ tr' = [call EXCEPT !.calls = e.calls, !.out = Returned(e.result)]
               /\ UNCHANGED cache
          ELSE IF fault = "setex"
          THEN /\ tr' = [call EXCEPT !.calls = e.calls, !.out = Raised]
               /\ UNCHANGED cache
          ELSE /\ tr' = [call EXCEPT !.calls = e.calls, !.out = Returned(e.result)]
               /\ cache' = setex(cache, redis_client, key, CacheTtl, e.result, now')

\* traducir_texto called outside a message handler (traducir_capitulo_task,
\* the streaming plugin).
TraducirTexto(texto, source, target, engine, d, fault, deepl_ok, fails) ==
    /\ handler = Idle
    /\ TraducirTextoCall(texto, source, target, engine, d, fault, deepl_ok, fails)
    /\ UNCHANGED <<queueVars, rateVars, redis_client, DEEPL_API_KEY, handler>>

\* What the engines can do during one call: whether the DeepL call returns
\* and which Google calls raise, for the calls that are made.
Outcomes(texto, engine, key) ==
    LET google == {[deepl_ok |-> FALSE, fails |-> f] : f \in SUBSET DOMAIN FinalChunks(texto)}
    IN IF UsesDeepl(engine, key)
       THEN google \cup {[deepl_ok |-> TRUE, fails |-> {}]}
       ELSE google

\* The texts given to traducir_texto.
Letters(n) == <<Run("a", n)>>
Sentence(n) == <<Run("a", n), Run(".", 1), Run(" ", 1)>>
Texts ==
    { <<>>,                                         \* ''
      <<Run(" ", 2)>>,                              \* whitespace only
      Letters(5),                                   \* one word
      <<Run(" ", 1), Run("a", 5)>>,                 \* the same after a space
      Concat(Sentence(1500), Letters(1600)),        \* two sentences, over the soft limit together
      Letters(4999),                                \* no '. ', under the hard limit
      Letters(6000),                                \* no '. ', over the hard limit
      Concat(Sentence(2998), Concat(Sentence(2998), \* 12000 characters, a '. ' ending
             Concat(Sentence(2998), Sentence(2998)))), \* at each multiple of 3000
      Concat(Sentence(2998), Concat(Sentence(2998), \* 12000 characters, the last
             Concat(Sentence(2998),                 \* sentence ending in '.' with
                    <<Run("a", 2999), Run(".", 1)>>))) } \* no space after it

\* The texts of the runs that call traducir_texto several times.
CacheTexts == {Letters(5), <<Run(" ", 2)>>}

TextInit ==
    /\ queue = <<>>
    /\ currently_processing = 0
    /\ file = NoFile
    /\ running = FALSE
    /\ inPass = FALSE
    /\ tasks = NoTasks
    /\ next_id = 0
    /\ now = 0
    /\ crashes = 0
    /\ last_usage = [u \in Users |-> Never]
    /\ rl_log = <<>>
    /\ redis_client \in Backings
    /\ DEEPL_API_KEY \in BOOLEAN
    /\ cache = NoEntries
    /\ tr = NoCall
    /\ handler = Idle

\* traducir_texto called with any of the texts.
TraducirAny(texts) ==
    \E texto \in texts, source \in Sources, target \in Targets, engine \in Engines,
       d \in CacheClockSteps, fault \in StoreFaults(redis_client) :
       \E o \in Outcomes(texto, engine, DEEPL_API_KEY) :
          TraducirTexto(texto, source, target, engine, d, fault, o.deepl_ok, o.fails)

\* One text, translated once.
TextNext == tr = NoCall /\ TraducirAny(Texts)

TextSpec == TextInit /\ [][TextNext]_vars

\* traducir_texto_google applied to a text directly, with no cache before it.
TraducirTextoGoogle(texto, fails) ==
    /\ tr = NoCall
    /\ LET g == traducir_texto_google(texto, fails)
       IN tr' = [texto |-> texto, source |-> "en", target |-> "es", engine |-> "google",
                 n |-> 1, hit |-> FALSE, calls |-> g.calls, out |-> Returned(g.result)]
    /\ UNCHANGED <<queueVars, rateVars, now, redis_client, DEEPL_API_KEY, cache, handler>>

GoogleNext ==
    \E texto \in Texts :
       \E fails \in SUBSET DOMAIN FinalChunks(texto) :
          TraducirTextoGoogle(texto, fails)

GoogleSpec == TextInit /\ [][GoogleNext]_vars

\* A few texts, translated again and again.
CacheNext == TraducirAny(CacheTexts)

CacheSpec == TextInit /\ [][CacheNext]_vars

\* ------------------------------------------- procesar_archivo and procesar
\* on_large_file_detected(user_id, file_path, file_size): files over 50 MB
\* go to the queue with priority 3; it returns file_size > LargeFile.
OnLargeFileDetected(u, file_size, t) ==
    IF file_size > LargeFile
    THEN AddToQueue(u, 3, t)
    ELSE running /\ ~inPass /\ UNCHANGED vars

\* int((idx + 1) / total * 100), for idx + 1 = k.
Porcentaje(k, total) == (k * 100) \div total

\* A message handler from its start to "Traduciendo... 0%": the rate limit is
\* checked, a rejected user gets the reply and the handler returns; the
\* document of an admitted user has `total` chapters.  The handlers of two
\* messages do not overlap.
Procesar(u, d, total) ==
    /\ handler = Idle
    /\ CheckRateLimitCall(u, d)
    /\ handler' = IF RateLimited(last_usage, u, now')
                  THEN Idle
                  ELSE [user |-> u, total |-> total, idx |-> 0, porcentaje |-> 0]
    /\ UNCHANGED <<queueVars, redis_client, DEEPL_API_KEY, cache, tr>>

\* One round of the chapter loop: traducir_texto runs in the executor (an
\* exception leaves the chapter as it was), then porcentaje is shown.
TraducirCapitulo(texto, source, target, engine, d, fault, deepl_ok, fails) ==
    /\ handler # Idle
    /\ handler.idx < handler.total
    /\ TraducirTextoCall(texto, source, target, engine, d, fault, deepl_ok, fails)
    /\ handler' = [handler EXCEPT !.idx = @ + 1,
                                  !.porcentaje = Porcentaje(handler.idx + 1, handler.total)]
    /\ UNCHANGED <<queueVars, rateVars, redis_client, DEEPL_API_KEY>>

\* After the loop the output file is built and sent; the handler returns.
ProcesarReturn ==
    /\ handler # Idle
    /\ handler.idx = handler.total
    /\ handler' = Idle
    /\ UNCHANGED <<queueVars, rateVars, now, redis_client, DEEPL_API_KEY, cache, tr>>

ChapterTexts == {Letters(5)}        \* the chapters of the documents sent
FileSizes == {LargeFile, LargeFile + 1}

\* The bot at work: messages come in, the handlers translate chapter by
\* chapter, the large_file_detected hook feeds the queue and the queue runs.
SubmitNext ==
    \/ \E u \in Users, d \in {0, RateLimitSeconds}, total \in 1 .. MaxChapters :
          Procesar(u, d, total)
    \/ \E texto \in ChapterTexts, source \in Sources, target \in Targets,
          fault \in StoreFaults(redis_client) :
          \E o \in Outcomes(texto, "google", DEEPL_API_KEY) :
             TraducirCapitulo(texto, source, target, "google", 0, fault, o.deepl_ok, o.fails)
    \/ ProcesarReturn
    \/ OnSystemStartup
    \/ \E u \in Owners, file_size \in FileSizes :
          next_id < 1 /\ OnLargeFileDetected(u, file_size, now)
    \/ ProcessQueue
    \/ \E id \in 1 .. next_id : ProcessItemStep(id)
    \/ \E id \in 1 .. next_id : ProcessItemComplete(id)

SubmitSpec == Init /\ [][SubmitNext]_vars

\* ------------------------------------------------------------- properties
\* The job table as a whole: the list in memory, or the persisted file when
\* the process is down.
JobTable == IF running THEN queue ELSE file.data

JobStatus(id) ==
    LET t == JobTable
        hit == {i \in DOMAIN t : t[i].id = id}
    IN IF hit = {} THEN "unknown" ELSE t[CHOOSE i \in hit : TRUE].status

Terminal == {"completed", "failed", "cancelled"}

\* The job that this step dispatched, if any.
Dispatched(id) ==
    /\ id \in Ids(queue) /\ id \in Ids(queue')
    /\ StatusOf(queue, id) = "queued"
    /\ StatusOf(queue', id) = "processing"

\* C1: in every reachable state the number of queue items whose status is
\* 'processing' is at most processing_slots.
C1_ProcessingWithinSlots == CountStatus(queue, "processing") <= processing_slots

\* C2: whenever process_queue dispatches a job, no other job that is 'queued'
\* at that moment has a strictly higher priority.
C2_DispatchHighestPriority ==
    [][\A id \in 1 .. next_id : Dispatched(id) =>
          \A j \in DOMAIN queue :
              queue[j].status = "queued" => queue[j].priority <= Item(queue, id).priority]_vars

\* C3: among jobs of equal priority, a job added later is never dispatched
\* while a job added earlier is still 'queued' (ids are handed out in the
\* order of the add_to_queue calls).
C3_FifoWithinPriority ==
    \A i, j \in DOMAIN queue :
        (/\ queue[i].id < queue[j].id
         /\ queue[i].priority = queue[j].priority
         /\ queue[i].status = "queued")
        => queue[j].status \in {"queued", "cancelled"}

\* Two jobs of one priority made at the same clock reading, both queued when
\* the scheduler pass began: the pass has dispatched the first one only.
C3_Witness ==
    \E i, j \in DOMAIN queue :
        /\ queue[i].id < queue[j].id
        /\ queue[i].priority = queue[j].priority
        /\ queue[i].created_at = queue[j].created_at
        /\ queue[i].status = "processing"
        /\ queue[j].status = "queued"
        /\ inPass

\* C4: every status change of a job is queued -> processing (a dispatch:
\* the job gets its process_item task), processing -> completed or failed
\* (its process_item task ends) or queued -> cancelled (no task involved);
\* completed, failed and cancelled are final, a job never leaves the table
\* and a new job is 'queued'.
AllowedChange(id, a, b) ==
    \/ a = "queued" /\ b = "processing" /\ id \notin DOMAIN tasks /\ id \in DOMAIN tasks'
    \/ a = "processing" /\ b \in {"completed", "failed"}
          /\ id \in DOMAIN tasks /\ id \notin DOMAIN tasks'
    \/ a = "queued" /\ b = "cancelled" /\ tasks' = tasks

C4_StatusTransitions ==
    [][/\ \A k \in DOMAIN JobTable :
             \E i \in DOMAIN JobTable' :
                 /\ JobTable'[i].id = JobTable[k].id
                 /\ \/ JobTable'[i].status = JobTable[k].status
                    \/ AllowedChange(JobTable[k].id, JobTable[k].status, JobTable'[i].status)
       /\ \A i \in DOMAIN JobTable' :
             (\A k \in DOMAIN JobTable : JobTable[k].id # JobTable'[i].id)
                 => JobTable'[i].status = "queued"]_vars

\* A job that failed in mid-run and a cancelled one, both still so after
\* the table was saved and taken up again.
C4_Witness ==
    /\ running /\ tasks = NoTasks /\ currently_processing = 0
    /\ \E i, j \in DOMAIN queue :
          /\ queue[i].status = "failed" /\ queue[i].progress = 5
          /\ queue[j].status = "cancelled"
          /\ queue[i].priority < queue[j].priority
          /\ i < j

\* C5: cancel_item on a 'processing' job returns False, only the job's own
\* process_item task changes a 'processing' job, and a cancelled job is never
\* changed again and never gets a process_item task.
C5_CancelOnlyQueued ==
    /\ [](\A i \in DOMAIN queue, u \in Users :
            queue[i].status = "processing" => ~CancelItemReturn(queue, queue[i].id, u))
    /\ [][\A k \in DOMAIN JobTable :
            /\ (/\ JobTable[k].status = "processing"
                /\ JobTable[k].id \in DOMAIN tasks => tasks' = tasks)
               => \E i \in DOMAIN JobTable' : JobTable'[i] = JobTable[k]
            /\ JobTable[k].status = "cancelled" =>
                  /\ JobTable[k].id \notin DOMAIN tasks'
                  /\ \E i \in DOMAIN JobTable' : JobTable'[i] = JobTable[k]]_vars

\* A cancelled job that the scheduler passed over: a slot is free, nothing is
\* queued, another job was dispatched after the cancellation.
C5_Witness ==
    /\ running /\ ~inPass
    /\ currently_processing < processing_slots
    /\ \E i, j \in DOMAIN queue :
          /\ queue[i].status = "cancelled"
          /\ queue[j].status = "processing"
          /\ queue[i].id < queue[j].id
          /\ queue[i].priority >= queue[j].priority

\* C6: every job in the table that is queued or processing eventually is
\* completed or failed (or is cancelled meanwhile).
C6_EveryJobEnds ==
    \A id \in 1 .. MaxJobs :
        (JobStatus(id) \in {"queued", "processing"}) ~> (JobStatus(id) \in Terminal)

\* C7: when process_item raises, its job becomes 'failed' with the message in
\* error_msg, currently_processing goes down by one, no other job changes, and
\* the scheduler can dispatch the next queued job.
C7_FailureIsContained ==
    [][\A id \in 1 .. next_id : ProcessItemFail(id) =>
          /\ Item(queue', id).status = "failed"
          /\ Item(queue', id).error_msg = "str(e)"
          /\ currently_processing' = currently_processing - 1
          /\ \A i \in DOMAIN queue : queue[i].id # id => queue'[i] = queue[i]
          /\ running'
          /\ PendingItems(queue') # <<>> => CanDispatch(queue', currently_processing')]_vars

\* C8: after on_system_startup has reloaded the job table, every job that the
\* file held as 'processing' is 'failed'.
C8_ReloadFailsInFlight ==
    [][(~running /\ running') =>
          \A i \in DOMAIN file.data :
              file.data[i].status = "processing" =>
                  /\ file.data[i].id \in Ids(queue')
                  /\ StatusOf(queue', file.data[i].id) = "failed"]_vars

\* C9: a call of check_rate_limit returns False exactly when an earlier call
\* for the same user returned True less than 60 seconds before it.
C9_RejectedIffRecentAllowed ==
    \A i \in DOMAIN rl_log :
        (rl_log[i].ret = FALSE) <=>
            \E j \in 1 .. i - 1 :
                /\ rl_log[j].user = rl_log[i].user
                /\ rl_log[j].ret = TRUE
                /\ rl_log[i].at - rl_log[j].at < RateLimitSeconds

\* Allowed, rejected 59 seconds later, allowed again at 60 seconds.
C9_Witness ==
    \E u \in Users, t \in 0 .. 1 :
        rl_log = <<[user |-> u, at |-> t, ret |-> TRUE],
                   [user |-> u, at |-> t + 59, ret |-> FALSE],
                   [user |-> u, at |-> t + 60, ret |-> TRUE]>>

\* C10: a call that returns False leaves last_usage as it was, a call that
\* returns True sets the caller's entry to the time of the call and no other.
C10_OnlyAllowedCallsRecord ==
    [][Len(rl_log') = Len(rl_log) + 1 =>
          LET e == rl_log'[Len(rl_log')]
          IN /\ e.ret = FALSE => last_usage' = last_usage
             /\ e.ret = TRUE => last_usage' = [last_usage EXCEPT ![e.user] = e.at]]_vars

\* A rejected call, then an allowed one less than 60 seconds after the
\* rejection: the rejection did not restart the window.
C10_Witness ==
    \E i, k \in DOMAIN rl_log :
        /\ i < k
        /\ rl_log[i].user = rl_log[k].user
        /\ rl_log[i].ret = FALSE
        /\ rl_log[k].ret = TRUE
        /\ rl_log[k].at - rl_log[i].at < RateLimitSeconds
        /\ last_usage[rl_log[k].user] = rl_log[k].at

\* The calls of user u in the log, and what check_rate_limit returns for them
\* when they are the only calls made: the code's own test and update, run
\* from an empty last_usage over the times of u's calls.
OwnCalls(log, u) == SelectSeq(log, LAMBDA e : e.user = u)

RECURSIVE AloneRets(_, _, _)
AloneRets(calls, lu, u) ==
    IF calls = <<>> THEN <<>>
    ELSE <<~RateLimited(lu, u, calls[1].at)>>
         \o AloneRets(Tail(calls), NextLastUsage(lu, u, calls[1].at), u)

\* C11: a check_rate_limit call for u leaves the entry of every other user
\* as it was, and in every interleaving each call for u returns what it
\* returns when the calls of all other users are left out.
C11_UsersAreIndependent ==
    /\ [](\A u \in Users :
            LET own == OwnCalls(rl_log, u)
            IN [i \in DOMAIN own |-> own[i].ret]
                  = AloneRets(own, [v \in Users |-> Never], u))
    /\ [][Len(rl_log') = Len(rl_log) + 1 =>
            \A v \in Users \ {rl_log'[Len(rl_log')].user} : last_usage'[v] = last_usage[v]]_vars

\* User 1 is admitted, user 2 is admitted within the same minute, user 1 is
\* then turned away.
C11_Witness ==
    /\ Len(rl_log) = 3
    /\ rl_log[1].user = 1 /\ rl_log[1].ret
    /\ rl_log[2].user = 2 /\ rl_log[2].ret /\ rl_log[2].at - rl_log[1].at < RateLimitSeconds
    /\ rl_log[3].user = 1 /\ ~rl_log[3].ret
    /\ last_usage[2] = rl_log[2].at

\* C12: a handler translates only for a user whose check_rate_limit call for
\* this message returned True, and every job in the queue belongs to a user
\* for whom a check_rate_limit call returned True.
C12_AdmittedBeforeWork ==
    /\ handler # Idle =>
          /\ rl_log # <<>>
          /\ rl_log[Len(rl_log)].user = handler.user
          /\ rl_log[Len(rl_log)].ret
    /\ \A i \in DOMAIN queue :
          \E k \in DOMAIN rl_log : rl_log[k].user = queue[i].user_id /\ rl_log[k].ret

\* C13: add_to_queue runs to its return in one step, with no dispatch and no
\* task step in it; after it the queue holds one job more, the new job is
\* queued under an id no other job has, and every job that was there is
\* there with all its fields as before.
C13_AddToQueueFrame ==
    [][next_id' = next_id + 1 =>
          /\ Len(queue') = Len(queue) + 1
          /\ Cardinality({i \in DOMAIN queue' : queue'[i].id = next_id'}) = 1
          /\ \A i \in DOMAIN queue' : queue'[i].id = next_id' => queue'[i].status = "queued"
          /\ next_id' \notin Ids(queue)
          /\ \A i \in DOMAIN queue : \E j \in DOMAIN queue' : queue'[j] = queue[i]
          /\ tasks' = tasks
          /\ currently_processing' = currently_processing]_vars

\* Job 2 has just been added with the higher priority: it stands before job
\* 1, which is being processed and keeps its progress.
C13_Witness ==
    /\ Len(queue) = 2
    /\ queue[1].id = 2 /\ queue[1].status = "queued" /\ queue[1].priority = 3
    /\ queue[2].id = 1 /\ queue[2].status = "processing" /\ queue[2].progress = 5
    /\ file.data = <<queue[2], queue[1]>>

\* C14: the progress shown by a handler changes only when a chapter is done
\* and is then the share of the chapters done, in percent; the progress of a
\* queue job changes only in a step in which a chapter has been translated.
C14_ProgressFollowsChapters ==
    [][/\ (handler' # Idle /\ handler'.porcentaje # handler.porcentaje) =>
             /\ handler'.idx = handler.idx + 1
             /\ tr'.n = tr.n + 1
             /\ handler'.porcentaje = (handler'.idx * 100) \div handler'.total
       /\ \A i \in DOMAIN queue : \A j \in DOMAIN queue' :
             (queue'[j].id = queue[i].id /\ queue'[j].progress # queue[i].progress) =>
                tr'.n = tr.n + 1]_vars

\* The texts handed to Google in the last call, in the order of the calls.
SentToGoogle ==
    LET g == SelectSeq(tr.calls, LAMBDA c : c.engine = "google")
    IN [i \in DOMAIN g |-> g[i].text]

\* C15: the chunks handed to Google, put together in order, are the text
\* given to traducir_texto_google, alone or followed by the restored '. '
\* (or by its '.', the space stripped).
C15_ChunksRebuildText ==
    SentToGoogle # <<>> =>
        join(SentToGoogle) \in {tr.texto, Concat(tr.texto, Delimiter),
                                Concat(tr.texto, <<Run(".", 1)>>)}

\* C16: no chunk of final_chunks is longer than the hard limit.
C16_ChunksWithinHardLimit ==
    SentToGoogle # <<>> =>
        /\ SentToGoogle = FinalChunks(tr.texto)
        /\ \A i \in DOMAIN SentToGoogle : len(SentToGoogle[i]) <= HardLimit

\* A text of 6000 letters: its one chunk, over the hard limit, went to
\* Google as slices of 2500, 2500 and the rest.
C16_Witness ==
    /\ len(tr.texto) > HardLimit
    /\ Len(Chunks(tr.texto)) = 1
    /\ Len(SentToGoogle) = 3
    /\ len(SentToGoogle[1]) = SliceSize
    /\ len(SentToGoogle[2]) = SliceSize

\* C17: no engine call, of Google or of DeepL, is given more than 5000
\* characters.
C17_EngineInputWithinHardLimit ==
    \A i \in DOMAIN tr.calls : len(tr.calls[i].text) <= HardLimit

\* C18: when every engine call of a traducir_texto call fails, the call
\* still returns, and returns the text it was given.
C18_AllFailedKeepsOriginal ==
    (tr.calls # <<>> /\ \A i \in DOMAIN tr.calls : ~tr.calls[i].ok) =>
        /\ ~tr.out.raised
        /\ tr.out.text = tr.texto

\* The DeepL engine was asked for and gave nothing: no key, or its call raised.
DeeplUnavailable ==
    /\ tr.engine = "deepl"
    /\ tr.calls # <<>>
    /\ ~DEEPL_API_KEY \/ (tr.calls[1].engine = "deepl" /\ ~tr.calls[1].ok)

\* C19: when DeepL is asked for and there is no key or its call raises,
\* Google is called with the same text and what traducir_texto_google makes
\* of it is the result; no engine failure reaches the caller.
C19_DeeplFallsBackToGoogle ==
    DeeplUnavailable =>
        LET g == SelectSeq(tr.calls, LAMBDA c : c.engine = "google")
        IN /\ SentToGoogle = FinalChunks(tr.texto)
           /\ tr.out.raised =>
                 redis_client = "Redis"
           /\ ~tr.out.raised =>
                 tr.out.text = join([i \in DOMAIN g |->
                                        IF g[i].ok THEN Translation("google", g[i].text)
                                        ELSE g[i].text])

\* With a key: the DeepL call raised, Google translated, and the caller got
\* Google's translation.
C19_Witness ==
    /\ DEEPL_API_KEY
    /\ tr.engine = "deepl"
    /\ Len(tr.calls) = 2
    /\ tr.calls[1].engine = "deepl" /\ ~tr.calls[1].ok /\ tr.calls[1].text = tr.texto
    /\ tr.calls[2].engine = "google" /\ tr.calls[2].ok
    /\ tr.out = Returned(Translation("google", tr.calls[2].text))

\* The key of the call made in this step.
KeyOfCall(call) == get_cache_key(call.texto, call.source, call.target, call.engine)

\* C20: a call that stores a result stores what it returns under the key of
\* its four arguments; a later call with that key, less than the TTL after
\* the store and with the store answering, returns the stored value, makes
\* no engine call and leaves the cache as it is, on Redis and on MockRedis.
C20_LookupReturnsStored ==
    [][tr'.n = tr.n + 1 =>
          LET key == KeyOfCall(tr')
          IN /\ cache' # cache =>
                   /\ ~tr'.out.raised
                   /\ DOMAIN cache' = DOMAIN cache \cup {key}
                   /\ cache'[key].value = encode(tr'.out.text)
                   /\ \A k \in DOMAIN cache : k # key => cache'[k] = cache[k]
             /\ (/\ key \in DOMAIN cache
                 /\ now' < cache[key].stored + CacheTtl
                 /\ ~tr'.out.raised) =>
                   /\ tr'.hit
                   /\ tr'.calls = <<>>
                   /\ tr'.out.text = decode(cache[key].value)
                   /\ cache' = cache]_vars

\* The third call is the second lookup of a stored translation, on Redis,
\* within the TTL.
C20_Witness ==
    /\ redis_client = "Redis"
    /\ tr.n = 3
    /\ tr.hit
    /\ now = 3
    /\ KeyOfCall(tr) \in DOMAIN cache
    /\ cache[KeyOfCall(tr)].stored = 1
    /\ tr.out = Returned(decode(cache[KeyOfCall(tr)].value))
    /\ tr.out.text = Translation("google", FinalChunks(tr.texto)[1])

\* C21: a call whose key was stored 24 hours ago or more finds nothing: it
\* is a miss and the engine is called again, on Redis and on MockRedis.
C21_EntryExpiresAfterTtl ==
    [][(/\ tr'.n = tr.n + 1
        /\ KeyOfCall(tr') \in DOMAIN cache
        /\ now' >= cache[KeyOfCall(tr')].stored + CacheTtl
        /\ ~tr'.out.raised) =>
          /\ ~tr'.hit
          /\ tr'.calls # <<>>]_vars

\* C22: no traducir_texto call ends in an exception, whatever the cache
\* store does.
C22_StoreFailureIsAbsorbed == ~tr.out.raised

\* The texts of 12000 characters whose sentences end at each multiple of the
\* soft limit: the last sentence ends in '. ', or in '.' alone.
CleanTexts ==
    { Concat(Sentence(2998), Concat(Sentence(2998),
             Concat(Sentence(2998), Sentence(2998)))),
      Concat(Sentence(2998), Concat(Sentence(2998),
             Concat(Sentence(2998), <<Run("a", 2999), Run(".", 1)>>))) }

\* C23: a text of 12000 characters with clean sentence boundaries goes to
\* Google as len / soft limit = 4 chunks, none longer than the soft limit.
C23_CleanTextSplitsInFour ==
    (tr.texto \in CleanTexts /\ SentToGoogle # <<>>) =>
        /\ Len(SentToGoogle) * SoftLimit = len(tr.texto)
        /\ \A i \in DOMAIN SentToGoogle : len(SentToGoogle[i]) <= SoftLimit

\* C24: a text with no '. ' that is longer than the hard limit goes to Google
\* as the slices of 2500 characters of the text itself, the last one holding
\* what is left of it.
C24_LongTextIsSlicedAsIs ==
    (/\ SentToGoogle # <<>>
     /\ split(tr.texto) = <<tr.texto>>
     /\ len(tr.texto) > HardLimit) =>
        SentToGoogle = Subchunks(tr.texto)

C26_LookupThenEngineThenStore ==
    [][(/\ tr'.n = tr.n + 1
        /\ strip(tr'.texto) # <<>>
        /\ ~tr'.out.raised) =>
          /\ tr'.hit =>
                /\ tr'.calls = <<>>
                /\ KeyOfCall(tr') \in DOMAIN cache
          /\ ~tr'.hit =>
                /\ tr'.calls # <<>>
                /\ KeyOfCall(tr') \in DOMAIN cache'
                /\ cache'[KeyOfCall(tr')].stored = now'
          /\ (/\ tr.n > 0 /\ ~tr.hit /\ ~tr.out.raised
              /\ KeyOfCall(tr') = KeyOfCall(tr)
              /\ now' < now + CacheTtl) =>
                /\ tr'.hit
                /\ tr'.calls = <<>>]_vars

\* On MockRedis, with a DeepL key: the second call repeats the first and
\* gets DeepL's translation from the cache.
C26_Witness ==
    /\ redis_client = "MockRedis"
    /\ DEEPL_API_KEY
    /\ tr.n = 2
    /\ tr.engine = "deepl"
    /\ tr.hit
    /\ tr.calls = <<>>
    /\ tr.out = Returned(Translation("deepl", tr.texto))

\* C27: traducir_texto_google sends every chunk of final_chunks to Google in
\* order, whatever happened to the chunks before, and returns the pieces
\* joined in that order: the translation of a chunk, or the chunk itself
\* where its call raised.
C27_ResultInChunkOrder ==
    tr.n > 0 =>
        /\ [i \in DOMAIN tr.calls |-> tr.calls[i].text] = FinalChunks(tr.texto)
        /\ tr.out.text = join([i \in DOMAIN tr.calls |->
                                  IF tr.calls[i].ok
                                  THEN Translation("google", tr.calls[i].text)
                                  ELSE tr.calls[i].text])

\* 6000 letters in three slices: the call for the second raised, the third
\* was still sent, and the result holds the second slice untranslated between
\* the two translations.
C27_Witness ==
    /\ tr.texto = Letters(6000)
    /\ Len(tr.calls) = 3
    /\ tr.calls[1].ok /\ ~tr.calls[2].ok /\ tr.calls[3].ok
    /\ tr.out.text = <<Run("g", 2500), Run("a", 2500), Run("g", 1000), Run(".", 1)>>

\* C28: currently_processing is the number of 'processing' items of the
\* queue, and is between 0 and processing_slots.
C28_CounterMatchesProcessing ==
    /\ currently_processing = CountStatus(queue, "processing")
    /\ currently_processing \in 0 .. processing_slots

\* The key under which the call was made names the engine asked for.
RequestedKey(call) ==
    /\ KeyOfCall(call)[Len(KeyOfCall(call))] = call.engine
    /\ KeyOfCall(call)[2] = Concat(call.texto, <<Run("|", 1)>>)

QueuedFor(q, id, u) ==
    \E i \in DOMAIN q : q[i].id = id /\ q[i].user_id = u /\ q[i].status = "queued"

\* C30: cancel_item(item_id, user_id) returns True exactly when a queued job
\* has that id and that user_id, and then only the status of that job
\* changes; every other call leaves the queue and the file as they are.
C30_CancelItemFrame ==
    /\ [](\A id \in 1 .. next_id + 1, u \in Users :
            CancelItemReturn(queue, id, u) <=> QueuedFor(queue, id, u))
    /\ [][IF queue' = queue /\ file' = file
          THEN \A id \in 1 .. next_id + 1, u \in Users :
                  QueuedFor(queue, id, u) => ~CancelItem(id, u)
          ELSE \A id \in 1 .. next_id + 1, u \in Users :
                  CancelItem(id, u) =>
                     /\ QueuedFor(queue, id, u)
                     /\ queue' = [i \in DOMAIN queue |->
                                     IF queue[i].id = id
                                     THEN [queue[i] EXCEPT !.status = "cancelled"]
                                     ELSE queue[i]]]_vars

\* Job 2 was cancelled by its owner after job 1 had completed; job 1 is as
\* its task left it.
C30_Witness ==
    /\ running
    /\ Len(queue) = 2
    /\ \E i, j \in DOMAIN queue :
          /\ queue[i].id = 1 /\ queue[i].status = "completed" /\ queue[i].progress = 10
          /\ queue[j].id = 2 /\ queue[j].status = "cancelled" /\ queue[j].progress = 0
    /\ file.data = queue

====
